---- MODULE Spec2Model ----
(***************************************************************************)
(* A model of scripts/accessibility/color_audit.py: the WCAG colour audit  *)
(* of the design tokens (load, flatten, resolve references, parse,         *)
(* contrast, classify), the scan of the Swift sources for hardcoded        *)
(* colours, the report and the exit code of main().                        *)
(*                                                                         *)
(* Representation.  A Python str is a sequence of one-character strings;   *)
(* a path segment that the code never looks inside ("semantic", "color",   *)
(* "primary", "DesignToken", ...) is kept as one element.  A float ratio   *)
(* is kept in tenths, rounded down: every threshold of the code (3.0, 4.5, *)
(* 7.0) is a whole number of tenths, so r >= t  <=>  floor(10 r) >= 10 t.  *)
(* A luminance is kept in millionths.                                      *)
(***************************************************************************)
EXTENDS Integers, Sequences, FiniteSets, TLC

VARIABLES
    pc,                \* the position of the run under the specification at hand
    \* ---- main(): inputs (the files on disk) and locals
    coreFile, semanticFile, sourceTree,
    tokens, pairIdx, side, cur, depth, fg_value, bg_value,
    semantic_results, palette_results, report, exit_code, raised,
    followed, returned,
    \* ---- find_color_usage_in_code(), file by file
    scanIdx, color_pairs, warnings,
    \* ---- parse_color_value()
    value, parsed,
    \* ---- get_contrast_level() and the report's counts
    ratio, level, results, level_counts,
    \* ---- extract_colors()
    data, prefix, colors

mainVars == <<coreFile, semanticFile, tokens, pairIdx, side, cur, depth,
              fg_value, bg_value, semantic_results, palette_results, report,
              exit_code, raised, followed, returned>>
scanVars == <<scanIdx, color_pairs, warnings>>
parseVars == <<value, parsed>>
levelVars == <<ratio, level, results, level_counts>>
extractVars == <<data, prefix, colors>>
vars == <<pc, sourceTree, mainVars, scanVars, parseVars, levelVars, extractVars>>

(***************************************************************************)
(* Bounds of the model.                                                    *)
(***************************************************************************)
\* Longest string parse_color_value is tried on, over ParseAlphabet.
MaxStrLen == 4
\* Largest ratio classified, in tenths (the real ratio lies in [1, 21]).
MaxRatio == 220
\* Results a report is rendered from, under SpecLevel.
MaxResults == 1
\* The interpreter's recursion limit (sys.getrecursionlimit(), 1000 by
\* default), scaled down: deeper than every cycle-free chain of the model.
RecursionLimit == 8

(***************************************************************************)
(* Python str helpers.                                                     *)
(***************************************************************************)
HexChars == <<"0","1","2","3","4","5","6","7","8","9","a","b","c","d","e","f">>
UpperHex == <<"A","B","C","D","E","F">>

IsHexDigit(c) == \E i \in 1..16 : HexChars[i] = c
HexVal(c) == (CHOOSE i \in 1..16 : HexChars[i] = c) - 1
IsDigit(c) == \E i \in 1..10 : HexChars[i] = c
IsSpace(c) == c = " "

\* str.lower(), on the characters the model uses
LowerChar(c) ==
    IF \E i \in 1..6 : UpperHex[i] = c
    THEN HexChars[10 + (CHOOSE i \in 1..6 : UpperHex[i] = c)]
    ELSE c
Lower(s) == [i \in 1..Len(s) |-> LowerChar(s[i])]

\* s[i:j] of Python: 0-based, end exclusive, clamped to the string
PySlice(s, i, j) ==
    LET hi == IF j > Len(s) THEN Len(s) ELSE j
    IN  IF i >= hi THEN <<>> ELSE SubSeq(s, i + 1, hi)

\* str.strip(): the white space at both ends goes
RECURSIVE LeadingSpaces(_, _)
LeadingSpaces(s, i) ==
    IF i <= Len(s) /\ IsSpace(s[i]) THEN LeadingSpaces(s, i + 1) ELSE i - 1
RECURSIVE TrailingSpaces(_, _)
TrailingSpaces(s, i) ==
    IF i >= 1 /\ IsSpace(s[i]) THEN TrailingSpaces(s, i - 1) ELSE Len(s) - i
Strip(s) ==
    LET a == LeadingSpaces(s, 1)
        b == TrailingSpaces(s, Len(s))
    IN  IF a = Len(s) THEN <<>> ELSE SubSeq(s, a + 1, Len(s) - b)

\* str.lstrip('#'): every leading '#' goes
RECURSIVE LeadingHashes(_, _)
LeadingHashes(s, i) ==
    IF i <= Len(s) /\ s[i] = "#" THEN LeadingHashes(s, i + 1) ELSE i - 1
LStripHash(s) == SubSeq(s, LeadingHashes(s, 1) + 1, Len(s))

StartsWith(s, p) == Len(s) >= Len(p) /\ SubSeq(s, 1, Len(p)) = p
\* `x in s` for a one-element x
Contains(s, x) == \E i \in 1..Len(s) : s[i] = x

\* int(s, 16) and int(s) of Python on a short slice: surrounding white space is
\* allowed, the rest must be digits of the base and not empty.
NoneParse == [tag |-> "None", rgb |-> <<>>]
ValueError == [tag |-> "ValueError", rgb |-> <<>>]
SomeRgb(t) == [tag |-> "rgb", rgb |-> t]

IntOk16(s) ==
    LET t == Strip(s) IN Len(t) >= 1 /\ \A i \in 1..Len(t) : IsHexDigit(t[i])
RECURSIVE IntVal(_, _)
IntVal(t, base) ==
    IF t = <<>> THEN 0
    ELSE IntVal(SubSeq(t, 1, Len(t) - 1), base) * base + HexVal(t[Len(t)])
Int16(s) == IntVal(Strip(s), 16)

(***************************************************************************)
(* hex_to_rgb, parse_color_value (lines 58-63, 128-142).  The result is    *)
(* an RGB triple, None, or the ValueError that int() raises.               *)
(***************************************************************************)
hex_to_rgb(hex_color) ==
    LET h0 == LStripHash(hex_color)
        h  == IF Len(h0) = 3
              THEN <<h0[1], h0[1], h0[2], h0[2], h0[3], h0[3]>>
              ELSE h0
        part(i) == PySlice(h, i, i + 2)
    IN  IF IntOk16(part(0)) /\ IntOk16(part(2)) /\ IntOk16(part(4))
        THEN SomeRgb(<<Int16(part(0)), Int16(part(2)), Int16(part(4))>>)
        ELSE ValueError

\* re.match(r'^[0-9a-f]{3,8}$', value)
MatchesHexRegex(v) ==
    Len(v) >= 3 /\ Len(v) <= 8 /\ \A i \in 1..Len(v) : IsHexDigit(v[i])

\* the end of the longest run of digits (\d+, greedy) that starts at i;
\* i - 1 when there is none
DigitsEnd(v, i) ==
    CHOOSE j \in (i - 1)..Len(v) :
        /\ \A k \in i..j : IsDigit(v[k])
        /\ (j = Len(v) \/ ~IsDigit(v[j + 1]))
\* the end of the white space (\s*) that starts at i
SpacesEnd(v, i) ==
    CHOOSE j \in (i - 1)..Len(v) :
        /\ \A k \in i..j : IsSpace(v[k])
        /\ (j = Len(v) \/ ~IsSpace(v[j + 1]))
At(v, i, c) == i <= Len(v) /\ v[i] = c

\* re.match(r'rgba?\((\d+),\s*(\d+),\s*(\d+)', value): the three groups as
\* ints, or None
RgbMatch(v) ==
    LET p0 == IF At(v, 4, "a") THEN 5 ELSE 4      \* after rgba?
        a1 == p0 + 1                               \* first digit of group 1
        e1 == DigitsEnd(v, a1)
        a2 == SpacesEnd(v, e1 + 2) + 1
        e2 == DigitsEnd(v, a2)
        a3 == SpacesEnd(v, e2 + 2) + 1
        e3 == DigitsEnd(v, a3)
    IN  IF /\ StartsWith(v, <<"r", "g", "b">>)
           /\ At(v, p0, "(")
           /\ e1 >= a1 /\ At(v, e1 + 1, ",")
           /\ e2 >= a2 /\ At(v, e2 + 1, ",")
           /\ e3 >= a3
        THEN SomeRgb(<<IntVal(SubSeq(v, a1, e1), 10),
                       IntVal(SubSeq(v, a2, e2), 10),
                       IntVal(SubSeq(v, a3, e3), 10)>>)
        ELSE NoneParse

parse_color_value(val) ==
    LET v == Lower(Strip(val))
    IN  IF StartsWith(v, <<"#">>) \/ MatchesHexRegex(v)
        THEN hex_to_rgb(LStripHash(v))
        ELSE RgbMatch(v)

(***************************************************************************)
(* relative_luminance, contrast_ratio (lines 71-94).                       *)
(***************************************************************************)
\* normalize(channel) of relative_luminance for channel 0..255, in
\* millionths rounded down: channel / 255 / 12.92 up to 0.03928, and
\* ((channel / 255 + 0.055) / 1.055) ** 2.4 above.
NormalizeTable == <<
    0, 303, 607, 910, 1214, 1517, 1821, 2124, 2428, 2731, 3035, 3346, 3676, 4024, 4391, 4776,
    5181, 5605, 6048, 6512, 6995, 7499, 8023, 8568, 9134, 9721, 10329, 10960, 11612, 12286, 12983, 13702,
    14443, 15208, 15996, 16807, 17641, 18500, 19382, 20288, 21219, 22173, 23153, 24157, 25186, 26241, 27320, 28426,
    29556, 30713, 31896, 33104, 34339, 35601, 36889, 38204, 39546, 40915, 42311, 43735, 45186, 46665, 48171, 49706,
    51269, 52860, 54480, 56128, 57805, 59511, 61246, 63010, 64803, 66625, 68478, 70360, 72271, 74213, 76185, 78187,
    80219, 82282, 84376, 86500, 88655, 90841, 93058, 95307, 97587, 99898, 102241, 104616, 107023, 109461, 111932, 114435,
    116970, 119538, 122138, 124771, 127437, 130136, 132868, 135633, 138431, 141263, 144128, 147027, 149959, 152926, 155926, 158960,
    162029, 165132, 168269, 171441, 174647, 177888, 181164, 184474, 187820, 191201, 194617, 198069, 201556, 205078, 208636, 212230,
    215860, 219526, 223227, 226965, 230740, 234550, 238397, 242281, 246201, 250158, 254152, 258182, 262250, 266355, 270497, 274677,
    278894, 283148, 287440, 291770, 296138, 300543, 304987, 309468, 313988, 318546, 323143, 327778, 332451, 337163, 341914, 346704,
    351532, 356400, 361306, 366252, 371237, 376262, 381326, 386429, 391572, 396755, 401977, 407240, 412542, 417885, 423267, 428690,
    434153, 439657, 445201, 450785, 456411, 462076, 467783, 473531, 479320, 485149, 491020, 496932, 502886, 508881, 514917, 520995,
    527115, 533276, 539479, 545724, 552011, 558340, 564711, 571124, 577580, 584078, 590618, 597201, 603827, 610495, 617206, 623960,
    630757, 637596, 644479, 651405, 658374, 665387, 672443, 679542, 686685, 693871, 701101, 708375, 715693, 723055, 730460, 737910,
    745404, 752942, 760524, 768151, 775822, 783537, 791297, 799102, 806952, 814846, 822785, 830769, 838799, 846873, 854992, 863157,
    871367, 879622, 887923, 896269, 904661, 913098, 921581, 930110, 938685, 947306, 955973, 964686, 973445, 982250, 991102, 1000000
    >>
normalize(channel) == NormalizeTable[channel + 1]

\* 0.2126 * r_norm + 0.7152 * g_norm + 0.0722 * b_norm, in millionths (each
\* product is kept within 32 bits: 0.7152 = 1788 / 2500)
relative_luminance(rgb) ==
    (2126 * normalize(rgb[1])) \div 10000
        + (1788 * normalize(rgb[2])) \div 2500
        + (722 * normalize(rgb[3])) \div 10000

Max2(a, b) == IF a >= b THEN a ELSE b
Min2(a, b) == IF a <= b THEN a ELSE b

\* (lighter + 0.05) / (darker + 0.05), in tenths rounded down
contrast_ratio(color1, color2) ==
    LET l1 == relative_luminance(color1)
        l2 == relative_luminance(color2)
        lighter == Max2(l1, l2)
        darker == Min2(l1, l2)
    IN  ((lighter + 50000) * 10) \div (darker + 50000)

(***************************************************************************)
(* The thresholds (lines 24-27, in tenths), ContrastLevel (lines 30-35)    *)
(* and get_contrast_level (lines 97-108).                                  *)
(***************************************************************************)
WCAG_AA_NORMAL == 45
WCAG_AA_LARGE == 30
WCAG_AAA_NORMAL == 70
WCAG_AAA_LARGE == 45

\* the members of the enum, in the order of their definition
ContrastLevel == <<"FAIL", "AA_LARGE", "AA_NORMAL", "AAA_LARGE", "AAA_NORMAL">>
Levels == {ContrastLevel[i] : i \in 1..Len(ContrastLevel)}

\* mutants: the AA_NORMAL test moved before the AAA_LARGE test; the
\* AAA_LARGE test made strict
get_contrast_level_strict(r) ==
    IF r >= WCAG_AAA_NORMAL THEN "AAA_NORMAL"
    ELSE IF r > WCAG_AAA_LARGE THEN "AAA_LARGE"
    ELSE IF r >= WCAG_AA_NORMAL THEN "AA_NORMAL"
    ELSE IF r >= WCAG_AA_LARGE THEN "AA_LARGE"
    ELSE "FAIL"

get_contrast_level_swapped(r) ==
    IF r >= WCAG_AAA_NORMAL THEN "AAA_NORMAL"
    ELSE IF r >= WCAG_AA_NORMAL THEN "AA_NORMAL"
    ELSE IF r >= WCAG_AAA_LARGE THEN "AAA_LARGE"
    ELSE IF r >= WCAG_AA_LARGE THEN "AA_LARGE"
    ELSE "FAIL"

get_contrast_level(r) ==
    IF r >= WCAG_AAA_NORMAL THEN "AAA_NORMAL"
    ELSE IF r >= WCAG_AAA_LARGE THEN "AAA_LARGE"
    ELSE IF r >= WCAG_AA_NORMAL THEN "AA_NORMAL"
    ELSE IF r >= WCAG_AA_LARGE THEN "AA_LARGE"
    ELSE "FAIL"

\* ContrastResult (lines 47-55); file and line are "designTokens" and 0 in
\* every result the audits build
ContrastResult(fg, bg, r, lv, ctx) ==
    [foreground |-> fg, background |-> bg, ratio |-> r, level |-> lv,
     context |-> ctx]

(***************************************************************************)
(* JSON values and Python dicts.  A dict is the sequence of its items in   *)
(* insertion order (the keys distinct); the flattened mapping is a         *)
(* function from keys to values.                                           *)
(***************************************************************************)
Str(s) == [kind |-> "str", s |-> s, items |-> <<>>]
Dict(items) == [kind |-> "dict", s |-> <<>>, items |-> items]
List(items) == [kind |-> "list", s |-> <<>>, items |-> items]
Item(k, v) == [key |-> k, value |-> v]
None == [kind |-> "none", s |-> <<>>, items |-> <<>>]

\* `key in obj` and obj[key] for a dict
HasKey(obj, k) ==
    obj.kind = "dict" /\ \E i \in 1..Len(obj.items) : obj.items[i].key = k
Get(obj, k) ==
    obj.items[CHOOSE i \in 1..Len(obj.items) : obj.items[i].key = k].value

EmptyMap == [k \in {} |-> None]
Put(m, k, v) == [x \in (DOMAIN m) \cup {k} |-> IF x = k THEN v ELSE m[x]]
\* dict.update
Update(m, n) ==
    [x \in (DOMAIN m) \cup (DOMAIN n) |-> IF x \in DOMAIN n THEN n[x] ELSE m[x]]

\* f"{a}.{b}" if a else b
Dotted(a, b) == IF a # <<>> THEN a \o <<".">> \o b ELSE b

(***************************************************************************)
(* extract_colors (lines 166-198).  `in` and indexing on "$extensions",    *)
(* "design" and "paths" are modelled for mappings, the shape the token     *)
(* files give them.                                                        *)
(***************************************************************************)
MetadataKeys ==
    {<<"$type">>, <<"$value">>, <<"$description">>, <<"$extensions">>,
     <<"$schema">>, <<"meta">>}

IsColorNode(obj) ==
    /\ HasKey(obj, <<"$type">>)
    /\ Get(obj, <<"$type">>) = Str(<<"color">>)
    /\ HasKey(obj, <<"$value">>)
HasDesignExt(obj) ==
    /\ HasKey(obj, <<"$extensions">>)
    /\ HasKey(Get(obj, <<"$extensions">>), <<"design">>)

\* f"{prefix}.{path}" if path else prefix
PrefixPath(pfx, path) == IF path # <<>> THEN pfx \o <<".">> \o path ELSE pfx

RECURSIVE traverse(_, _, _, _)
RECURSIVE traverse_items(_, _, _, _, _)
\* the loop over obj.items() (a dict) or enumerate(obj) (a list), from item i on
traverse_items(obj, i, path, pfx, acc) ==
    IF i > Len(obj.items) THEN acc
    ELSE IF obj.kind = "dict"
    THEN LET it == obj.items[i]
             acc1 == IF it.key \notin MetadataKeys
                     THEN traverse(it.value, Dotted(path, it.key), pfx, acc)
                     ELSE acc
         IN  traverse_items(obj, i + 1, path, pfx, acc1)
    ELSE LET it == obj.items[i]
             acc1 == IF it.kind = "dict"
                     THEN traverse(it, path \o <<"[", HexChars[i], "]">>, pfx, acc)
                     ELSE acc
         IN  traverse_items(obj, i + 1, path, pfx, acc1)

traverse(obj, path, pfx, acc) ==
    IF obj.kind = "dict"
    THEN IF IsColorNode(obj)
         THEN Put(acc, PrefixPath(pfx, path), Get(obj, <<"$value">>))
         ELSE IF HasDesignExt(obj)
         THEN LET design_ext == Get(Get(obj, <<"$extensions">>), <<"design">>)
              IN  IF HasKey(design_ext, <<"paths">>)
                  THEN LET paths == Get(design_ext, <<"paths">>)
                           base == PrefixPath(pfx, path)
                           acc1 == IF HasKey(paths, <<"light">>)
                                   THEN Put(acc, base \o <<".", "light">>,
                                            Get(paths, <<"light">>))
                                   ELSE acc
                       IN  IF HasKey(paths, <<"dark">>)
                           THEN Put(acc1, base \o <<".", "dark">>,
                                    Get(paths, <<"dark">>))
                           ELSE acc1
                  ELSE acc
         ELSE traverse_items(obj, 1, path, pfx, acc)
    ELSE IF obj.kind = "list"
    THEN traverse_items(obj, 1, path, pfx, acc)
    ELSE acc

extract_colors(d, pfx) == traverse(d, <<>>, pfx, EmptyMap)

(***************************************************************************)
(* Token documents the model draws from.                                   *)
(***************************************************************************)
White == <<"#", "f", "f", "f">>
Black == <<"#", "0", "0", "0">>
Gray7 == <<"#", "7", "7", "7">>
Gray9 == <<"#", "9", "9", "9">>

\* {"$type": "color", "$value": v}
Leaf(v) ==
    Dict(<<Item(<<"$type">>, Str(<<"color">>)), Item(<<"$value">>, Str(v))>>)
\* {"$extensions": {"design": {"paths": {"light": l, "dark": d}}}}
ExtLeaf(l, d) ==
    Dict(<<Item(<<"$extensions">>, Dict(<<Item(<<"design">>,
        Dict(<<Item(<<"paths">>,
            Dict(<<Item(<<"light">>, Str(l)), Item(<<"dark">>, Str(d))>>))>>))>>))>>)
\* a group that carries a design extension without paths, and one child
ExtGroup(k, child) ==
    Dict(<<Item(<<"$extensions">>, Dict(<<Item(<<"design">>, Dict(<<>>))>>)),
           Item(k, child)>>)

\* Nesting depth of the documents extract_colors is tried on.
MaxNesting == 2
DocKeys == {<<"a">>, <<"b">>, <<"a", ".", "b">>, <<"meta">>}
Docs0 == {Leaf(White), Leaf(<<"{", "x", "}">>), ExtLeaf(White, Black), Str(White)}
RECURSIVE DocsUpTo(_)
DocsUpTo(n) ==
    IF n = 0 THEN Docs0
    ELSE LET D == DocsUpTo(n - 1)
         IN  D \cup {Dict(<<Item(k, x)>>) : k \in DocKeys, x \in D}
               \cup {List(<<x>>) : x \in D}
               \cup {ExtGroup(<<"a">>, x) : x \in Docs0}
Docs ==
    DocsUpTo(MaxNesting)
      \cup {Dict(<<Item(k[1], x), Item(k[2], y)>>) :
                k \in {kk \in DocKeys \X DocKeys : kk[1] # kk[2]},
                x \in Docs0, y \in DocsUpTo(MaxNesting - 1)}
      \cup {List(<<x, y>>) : x \in Docs0, y \in DocsUpTo(MaxNesting - 1)}
Prefixes == {<<"core">>, <<"semantic">>}

(***************************************************************************)
(* find_color_usage_in_code (lines 201-253).  A source file is the         *)
(* sequence of its lines, each with the matches the six patterns find in   *)
(* it in the order the loops visit them, and fail_after: -1 when the file  *)
(* reads to its end, k >= 0 when open() or the read raises once k lines    *)
(* have been handed to the loop body.                                      *)
(***************************************************************************)
Match(v, t) == [color_value |-> v, color_type |-> t]
Line(text, ms) == [text |-> text, matches |-> ms]
SourceFile(name, ls, k) == [name |-> name, lines |-> ls, fail_after |-> k]
ColorPair(fg, bg, ctx, f, ln) ==
    [foreground |-> fg, background |-> bg, context |-> ctx, file |-> f,
     line |-> ln]

\* the two `continue` tests of lines 229-235
IsHardcoded(v) ==
    /\ ~Contains(v, "DesignToken")
    /\ (StartsWith(v, <<"#">>) \/ StartsWith(v, <<".">>)
          \/ Contains(Lower(v), "rgb"))

\* the pairs one line appends, from match i on
RECURSIVE line_pairs(_, _, _, _)
line_pairs(f, n, i, acc) ==
    LET ln == f.lines[n] IN
    IF i > Len(ln.matches) THEN acc
    ELSE LET m == ln.matches[i]
             acc1 ==
                 IF IsHardcoded(m.color_value)
                 THEN Append(acc, ColorPair(
                        IF m.color_type = "foreground" THEN m.color_value ELSE <<>>,
                        IF m.color_type = "background" THEN m.color_value ELSE <<>>,
                        ln.text, f.name, n))
                 ELSE acc
         IN  line_pairs(f, n, i + 1, acc1)

\* the lines of one file that are read before the file ends or raises
LinesRead(f) ==
    IF f.fail_after >= 0 /\ f.fail_after < Len(f.lines)
    THEN f.fail_after ELSE Len(f.lines)
Raises(f) == f.fail_after >= 0

RECURSIVE file_pairs(_, _, _)
file_pairs(f, n, acc) ==
    IF n > LinesRead(f) THEN acc
    ELSE file_pairs(f, n + 1, line_pairs(f, n, 1, acc))

\* one turn of the loop over the files (lines 220-251): the try block on file
\* f, color_pairs and the warnings printed so far going in and out
process_file(f, st) ==
    [color_pairs |-> file_pairs(f, 1, st.color_pairs),
     warnings |-> IF Raises(f) THEN Append(st.warnings, f.name) ELSE st.warnings]

RECURSIVE scan_files(_, _, _)
scan_files(files, i, st) ==
    IF i > Len(files) THEN st
    ELSE scan_files(files, i + 1, process_file(files[i], st))

\* Sources/DeduperUI: whether it exists, and its *.swift files in the order
\* rglob yields them
Tree(e, files) == [exists |-> e, files |-> files]
NoTree == Tree(FALSE, <<>>)

find_color_usage_in_code(tree) ==
    IF ~tree.exists THEN [color_pairs |-> <<>>, warnings |-> <<>>]
    ELSE scan_files(tree.files, 1, [color_pairs |-> <<>>, warnings |-> <<>>])

(***************************************************************************)
(* generate_report (lines 363-453): what the report holds.                 *)
(***************************************************************************)
\* level_counts.get(level, 0) for each level of the enum
LevelCounts(rs) ==
    [lv \in Levels |-> Cardinality({i \in 1..Len(rs) : rs[i].level = lv})]

RECURSIVE Failures(_)
Failures(rs) ==
    IF rs = <<>> THEN <<>>
    ELSE (IF Head(rs).level = "FAIL" THEN <<Head(rs)>> ELSE <<>>)
            \o Failures(Tail(rs))
FirstTen(q) == SubSeq(q, 1, Min2(Len(q), 10))

generate_report(rs, tree) ==
    LET failures == Failures(rs)
        hardcoded_colors == find_color_usage_in_code(tree)
    IN  [total |-> Len(rs),
         level_counts |-> LevelCounts(rs),
         failures |-> failures,
         no_failures_found |-> failures = <<>>,
         critical |-> FirstTen(failures),
         hardcoded |-> FirstTen(hardcoded_colors.color_pairs),
         warnings |-> hardcoded_colors.warnings]

\* mutant: the exit code taken from the results instead of the failures
exit_code_of_any(all_results) == IF all_results # <<>> THEN 1 ELSE 0

\* lines 488, 498-504 of main
exit_code_of(all_results) == IF Failures(all_results) # <<>> THEN 1 ELSE 0

(***************************************************************************)
(* audit_semantic_color_pairs (lines 256-320): the pairs and               *)
(* resolve_token.                                                         *)
(***************************************************************************)
Seg2(a, b) == <<a, ".", b>>
pairs ==
    << <<Seg2("foreground", "primary"), Seg2("background", "primary")>>,
       <<Seg2("foreground", "secondary"), Seg2("background", "primary")>>,
       <<Seg2("foreground", "tertiary"), Seg2("background", "primary")>>,
       <<Seg2("foreground", "onBrand"), Seg2("background", "brand")>>,
       <<Seg2("foreground", "success"), Seg2("background", "primary")>>,
       <<Seg2("foreground", "warning"), Seg2("background", "primary")>>,
       <<Seg2("foreground", "danger"), Seg2("background", "primary")>>,
       <<Seg2("foreground", "info"), Seg2("background", "primary")>>,
       <<Seg2("foreground", "link"), Seg2("background", "primary")>>,
       <<Seg2("foreground", "disabled"), Seg2("background", "disabled")>> >>

\* f"semantic.color.{fg_path}"
SemanticColor(p) == <<"semantic", ".", "color", ".">> \o p
FgPath(i) == SemanticColor(pairs[i][1])
BgPath(i) == SemanticColor(pairs[i][2])

\* isinstance(value, str) and value.startswith('{') and value.endswith('}')
IsReference(v) ==
    v.kind = "str" /\ Len(v.s) >= 1 /\ v.s[1] = "{" /\ v.s[Len(v.s)] = "}"
\* value[1:-1]
RefPath(v) == PySlice(v.s, 1, Len(v.s) - 1)

IsPrefixed(ref_path) ==
    \/ StartsWith(ref_path, <<"semantic", ".">>)
    \/ StartsWith(ref_path, <<"core", ".">>)

\* mutant: the literal path tried before the prefixed ones
ref_target_literal_first(ref_path, toks) ==
    IF ref_path \in DOMAIN toks THEN ref_path
    ELSE IF <<"semantic", ".">> \o ref_path \in DOMAIN toks
    THEN <<"semantic", ".">> \o ref_path
    ELSE IF <<"core", ".">> \o ref_path \in DOMAIN toks
    THEN <<"core", ".">> \o ref_path
    ELSE ref_path

\* the path resolve_token calls itself on for a reference (lines 283-292)
ref_target(ref_path, toks) ==
    IF ~IsPrefixed(ref_path)
    THEN LET semantic_path == <<"semantic", ".">> \o ref_path
             core_path == <<"core", ".">> \o ref_path
         IN  IF semantic_path \in DOMAIN toks THEN semantic_path
             ELSE IF core_path \in DOMAIN toks THEN core_path
             ELSE ref_path
    ELSE ref_path

NoFollow == [from |-> <<>>, ref |-> <<>>, to |-> <<>>]
Return(v) == [kind |-> "return", value |-> v, path |-> <<>>, ref |-> <<>>]
Call(p, r) == [kind |-> "call", value |-> None, path |-> p, ref |-> r]
RaiseRecursion == [kind |-> "raise", value |-> None, path |-> <<>>, ref |-> <<>>]

\* mutants: a reference returned as it is; None returned at the depth limit
resolve_token_no_follow(token_path, d, toks) ==
    IF d > RecursionLimit THEN RaiseRecursion
    ELSE IF token_path \in DOMAIN toks THEN Return(toks[token_path])
    ELSE Return(None)

resolve_token_depth_guard(token_path, d, toks) ==
    IF d > RecursionLimit THEN Return(None)
    ELSE IF token_path \in DOMAIN toks
    THEN LET v == toks[token_path]
         IN  IF IsReference(v)
             THEN Call(ref_target(RefPath(v), toks), RefPath(v))
             ELSE Return(v)
    ELSE Return(None)

\* one invocation of resolve_token (lines 274-294) as frame number d of the
\* recursion: it returns a value, or calls itself on another path and
\* returns what that call returns, or the interpreter refuses the frame
resolve_token(token_path, d, toks) ==
    IF d > RecursionLimit THEN RaiseRecursion
    ELSE IF token_path \in DOMAIN toks
    THEN LET v == toks[token_path]
         IN  IF IsReference(v)
             THEN Call(ref_target(RefPath(v), toks), RefPath(v))
             ELSE Return(v)
    ELSE Return(None)

\* `not x` of Python
Truthy(v) ==
    IF v.kind = "str" THEN v.s # <<>>
    ELSE IF v.kind = "none" THEN FALSE
    ELSE v.items # <<>>

\* parse_color_value on a token value: a value that is no str has no strip()
ParseNode(v) ==
    IF v.kind = "str" THEN parse_color_value(v.s)
    ELSE [tag |-> "AttributeError", rgb |-> <<>>]
IsError(r) == r.tag \in {"ValueError", "AttributeError"}

\* lines 300-318: what one pair adds to results, or the error that ends the run
audit_pair(i, fg, bg, rs) ==
    IF ~Truthy(fg) \/ ~Truthy(bg) THEN [raised |-> "none", results |-> rs]
    ELSE LET fg_rgb == ParseNode(fg)
             bg_rgb == ParseNode(bg)
         IN  IF IsError(fg_rgb) THEN [raised |-> fg_rgb.tag, results |-> rs]
             ELSE IF IsError(bg_rgb) THEN [raised |-> bg_rgb.tag, results |-> rs]
             ELSE IF fg_rgb.tag = "rgb" /\ bg_rgb.tag = "rgb"
             THEN LET r == contrast_ratio(fg_rgb.rgb, bg_rgb.rgb)
                  IN  [raised |-> "none",
                       results |-> Append(rs, ContrastResult(FgPath(i), BgPath(i),
                                      r, get_contrast_level(r), pairs[i]))]
             ELSE [raised |-> "none", results |-> rs]

(***************************************************************************)
(* audit_palette_colors (lines 323-360).  The results follow the order of  *)
(* the dict in the code; the model takes the keys in a fixed order of its  *)
(* own.                                                                    *)
(***************************************************************************)
backgrounds ==
    << <<"light", <<"#", "F", "A", "F", "A", "F", "A">> >>,
       <<"dark", <<"#", "1", "4", "1", "4", "1", "4">> >>,
       <<"white", <<"#", "F", "F", "F", "F", "F", "F">> >>,
       <<"black", <<"#", "0", "0", "0", "0", "0", "0">> >> >>

IsPaletteKey(k) == Contains(Lower(k), "palette") /\ ~Contains(k, "$value")

RECURSIVE SetToSeq(_)
SetToSeq(S) ==
    IF S = {} THEN <<>>
    ELSE LET x == CHOOSE y \in S : TRUE IN <<x>> \o SetToSeq(S \ {x})

palette_results_of(name, rgb) ==
    [j \in 1..Len(backgrounds) |->
        LET r == contrast_ratio(rgb, parse_color_value(backgrounds[j][2]).rgb)
        IN  ContrastResult(name, <<backgrounds[j][1]>>, r, get_contrast_level(r),
                           <<"palette", backgrounds[j][1]>>)]

RECURSIVE palette_loop(_, _, _)
palette_loop(keys, toks, rs) ==
    IF keys = <<>> THEN rs
    ELSE LET rgb == ParseNode(toks[Head(keys)])
         IN  palette_loop(Tail(keys), toks,
                IF rgb.tag = "rgb"
                THEN rs \o palette_results_of(Head(keys), rgb.rgb)
                ELSE rs)

audit_palette_colors(toks) ==
    LET keys == {k \in DOMAIN toks : IsPaletteKey(k)}
    IN  IF \E k \in keys : IsError(ParseNode(toks[k]))
        THEN [raised |-> (CHOOSE t \in {"ValueError", "AttributeError"} :
                            \E k \in keys : ParseNode(toks[k]).tag = t),
              results |-> <<>>]
        ELSE [raised |-> "none", results |-> palette_loop(SetToSeq(keys), toks, <<>>)]

(***************************************************************************)
(* The variables a specification does not use stay at these values.        *)
(***************************************************************************)
\* a token file on the disk: missing, unreadable, malformed, or ok with its
\* JSON document
File(st, d) == [state |-> st, doc |-> d]

IdleMain ==
    /\ coreFile = File("unread", None) /\ semanticFile = File("unread", None)
    /\ tokens = EmptyMap /\ pairIdx = 0 /\ side = "idle" /\ cur = <<>>
    /\ depth = 0 /\ fg_value = None /\ bg_value = None
    /\ semantic_results = <<>> /\ palette_results = <<>>
    /\ report = "idle" /\ exit_code = -1 /\ raised = "none"
    /\ followed = NoFollow /\ returned = {}
IdleScan == scanIdx = 0 /\ color_pairs = <<>> /\ warnings = <<>>
IdleParse == value = <<>> /\ parsed = NoneParse
IdleLevel == ratio = 0 /\ level = "idle" /\ results = <<>> /\ level_counts = "idle"
IdleExtract == data = None /\ prefix = <<>> /\ colors = EmptyMap

(***************************************************************************)
(* SpecParse: parse_color_value on every string of the bounded set.        *)
(***************************************************************************)
ParseAlphabet == {"#", "f", "F", "0", "g", " "}
StringsUpTo(n) == UNION {[1..k -> ParseAlphabet] : k \in 0..n}
LongStrings ==
    {<<"#", "f", "f", "0", "0", "7", "7">>,
     <<"f", "f", "0", "0", "7", "7", "f", "f">>,
     <<"f", "f", "0", "0", "7", "7", "f", "f", "0">>,
     <<"a", "b", "c", "d", "e">>,
     <<"r", "g", "b", "(", "0", ",", "1", "2", ",", "7", ")">>,
     <<"r", "g", "b", "a", "(", "7", ",", " ", "7", ",", " ", " ", "9", ",", "1", ")">>,
     <<"r", "g", "b", "(", "0", ",", "0">>,
     <<"r", "g", "b", "(", ",", "0", ",", "0", ")">>,
     <<"h", "s", "l", "(", "0", ",", "0", ",", "0", ")">>}
ParseInputs == StringsUpTo(MaxStrLen) \cup LongStrings

InitParse ==
    /\ pc = "call"
    /\ value \in ParseInputs
    /\ parsed = NoneParse
    /\ sourceTree = NoTree
    /\ IdleMain /\ IdleScan /\ IdleLevel /\ IdleExtract

Parse ==
    /\ pc = "call"
    /\ parsed' = parse_color_value(value)
    /\ pc' = IF parsed'.tag = "ValueError" THEN "raised" ELSE "returned"
    /\ UNCHANGED <<value, sourceTree, mainVars, scanVars, levelVars, extractVars>>

NextParse == Parse
SpecParse == InitParse /\ [][NextParse]_vars

(***************************************************************************)
(* SpecLevel: get_contrast_level on every ratio of the bounded range, and  *)
(* the report's count by level (generate_report, lines 373-388).           *)
(***************************************************************************)
Ratios == 0..MaxRatio

InitLevel ==
    /\ pc = "audit"
    /\ ratio = 0 /\ level = "idle" /\ results = <<>> /\ level_counts = "idle"
    /\ sourceTree = NoTree
    /\ IdleMain /\ IdleScan /\ IdleParse /\ IdleExtract

Classify ==
    /\ pc = "audit"
    /\ Len(results) < MaxResults
    /\ \E r \in Ratios :
        /\ ratio' = r
        /\ level' = get_contrast_level(r)
        /\ results' = Append(results,
                ContrastResult(<<"fg">>, <<"bg">>, r, level', <<"pair">>))
    /\ UNCHANGED <<pc, level_counts, sourceTree, mainVars, scanVars, parseVars,
                   extractVars>>

CountLevels ==
    /\ pc = "audit"
    /\ level_counts' = LevelCounts(results)
    /\ pc' = "reported"
    /\ UNCHANGED <<ratio, level, results, sourceTree, mainVars, scanVars,
                   parseVars, extractVars>>

NextLevel == Classify \/ CountLevels
SpecLevel == InitLevel /\ [][NextLevel]_vars

(***************************************************************************)
(* SpecExtract: extract_colors on every document of the bounded set.       *)
(***************************************************************************)
InitExtract ==
    /\ pc = "call"
    /\ data \in Docs
    /\ prefix \in Prefixes
    /\ colors = EmptyMap
    /\ sourceTree = NoTree
    /\ IdleMain /\ IdleScan /\ IdleParse /\ IdleLevel

Extract ==
    /\ pc = "call"
    /\ colors' = extract_colors(data, prefix)
    /\ pc' = "returned"
    /\ UNCHANGED <<data, prefix, sourceTree, mainVars, scanVars, parseVars,
                   levelVars>>

NextExtract == Extract
SpecExtract == InitExtract /\ [][NextExtract]_vars

(***************************************************************************)
(* Spec: main() (lines 456-504), from the load of the token files to the   *)
(* exit code.  The files are read from the disk when the code opens them.  *)
(***************************************************************************)
Ref(p) == <<"{">> \o p \o <<"}">>
Absent == <<>>

FgPrimary == FgPath(1)
BgPrimary == BgPath(1)
Opt(k, v) == IF v = Absent THEN <<>> ELSE <<Item(k, Leaf(v))>>
OptGroup(k, items) == IF items = <<>> THEN <<>> ELSE <<Item(k, Dict(items))>>

\* semantic.tokens.json: color.foreground.primary, color.background.primary,
\* color.alias, and one more top-level entry
SemanticDoc(v1, v2, va, extra) ==
    Dict(OptGroup(<<"color">>,
             OptGroup(<<"foreground">>, Opt(<<"primary">>, v1))
               \o OptGroup(<<"background">>, Opt(<<"primary">>, v2))
               \o Opt(<<"alias">>, va))
           \o extra)

FgValues ==
    {Absent, Black, Gray9, Gray7, <<"#", "g">>, <<"g">>,
     Ref(Seg2("color", "alias")),
     Ref(<<"core", ".", "palette", ".", "gray">>),
     Ref(Seg2("palette", "gray")),
     Ref(<<"core">>),
     Ref(<<"color", ".", "foreground", ".", "primary">>),
     Ref(BgPrimary),
     Ref(<<"missing">>)}
BgValues == {Absent, White, Ref(FgPrimary)}
AliasValues ==
    {Absent, Gray9, Ref(<<"core", ".", "palette", ".", "gray">>),
     Ref(Seg2("color", "alias"))}
SemanticExtras ==
    {<<>>, <<Item(<<"core">>, Leaf(Gray9))>>,
     <<Item(<<"palette">>, Dict(<<Item(<<"gray">>, Leaf(Gray7))>>))>>}

Unreadable == {File("unreadable", None), File("malformed", None)}
SemanticFiles ==
    {File("missing", None)} \cup Unreadable
      \cup {File("ok", SemanticDoc(v1, v2, va, x)) :
                v1 \in FgValues, v2 \in BgValues, va \in AliasValues,
                x \in SemanticExtras}
CoreFiles ==
    {File("missing", None)} \cup Unreadable
      \cup {File("ok", Leaf(Black)),
            File("ok", Dict(<<Item(<<"palette">>,
                                Dict(<<Item(<<"gray">>, Leaf(Gray9))>>))>>)),
            File("ok", Dict(<<Item(<<"palette">>,
                                Dict(<<Item(<<"gray">>, Leaf(<<"#">>))>>))>>))}

HashRed == <<"#", "F", "F", "0", "0", "0", "0">>
FindingLine ==
    Line(<<".foregroundColor(#FF0000)">>, <<Match(HashRed, "foreground")>>)
TokenLine ==
    Line(<<".background(DesignToken.bg)">>,
         <<Match(<<"DesignToken", ".", "bg">>, "background")>>)
MainTrees ==
    {NoTree, Tree(TRUE, <<>>),
     Tree(TRUE, <<SourceFile("A.swift", <<FindingLine, TokenLine>>, -1)>>),
     Tree(TRUE, <<SourceFile("A.swift", <<FindingLine, TokenLine>>, 1)>>)}

Init ==
    /\ pc = "load_core"
    /\ coreFile = File("unread", None) /\ semanticFile = File("unread", None)
    /\ sourceTree = NoTree
    /\ tokens = EmptyMap /\ pairIdx = 0 /\ side = "fg" /\ cur = <<>>
    /\ depth = 0 /\ fg_value = None /\ bg_value = None
    /\ semantic_results = <<>> /\ palette_results = <<>>
    /\ report = "none" /\ exit_code = -1 /\ raised = "none"
    /\ followed = NoFollow /\ returned = {}
    /\ IdleScan /\ IdleParse /\ IdleLevel /\ IdleExtract

otherVars == <<scanVars, parseVars, levelVars, extractVars>>

\* lines 149-154 and 156-161: one token file, f the file on the disk
load_file(f, pfx, toks) ==
    IF f.state = "missing" THEN [raised |-> "none", tokens |-> toks]
    ELSE IF f.state = "ok"
    THEN [raised |-> "none", tokens |-> Update(toks, extract_colors(f.doc, pfx))]
    ELSE [raised |-> IF f.state = "unreadable" THEN "OSError" ELSE "JSONDecodeError",
          tokens |-> toks]

LoadCore ==
    /\ pc = "load_core"
    /\ \E f \in CoreFiles :
        LET r == load_file(f, <<"core">>, tokens) IN
        /\ coreFile' = f
        /\ tokens' = r.tokens
        /\ raised' = r.raised
        /\ pc' = IF r.raised = "none" THEN "load_semantic" ELSE "crashed"
    /\ UNCHANGED <<semanticFile, sourceTree, pairIdx, side, cur, depth, fg_value,
                   bg_value, semantic_results, palette_results, report,
                   exit_code, followed, returned, otherVars>>

\* the load of the semantic file, and the entry into the loop over the pairs
LoadSemantic ==
    /\ pc = "load_semantic"
    /\ \E f \in SemanticFiles :
        LET r == load_file(f, <<"semantic">>, tokens) IN
        /\ semanticFile' = f
        /\ tokens' = r.tokens
        /\ raised' = r.raised
        /\ pc' = IF r.raised = "none" THEN "resolve" ELSE "crashed"
        /\ pairIdx' = IF r.raised = "none" THEN 1 ELSE pairIdx
        /\ cur' = IF r.raised = "none" THEN FgPath(1) ELSE cur
        /\ depth' = IF r.raised = "none" THEN 1 ELSE depth
    /\ UNCHANGED <<coreFile, sourceTree, side, fg_value, bg_value,
                   semantic_results, palette_results, report, exit_code,
                   followed, returned, otherVars>>

Requested == IF side = "fg" THEN FgPath(pairIdx) ELSE BgPath(pairIdx)

\* one frame of resolve_token for the foreground or the background of pair
\* pairIdx (lines 297-298)
Resolve ==
    /\ pc = "resolve"
    /\ LET r == resolve_token(cur, depth, tokens) IN
        \/ /\ r.kind = "call"
           /\ cur' = r.path
           /\ depth' = depth + 1
           /\ followed' = [from |-> cur, ref |-> r.ref, to |-> r.path]
           /\ UNCHANGED <<pc, side, fg_value, bg_value, returned, raised>>
        \/ /\ r.kind = "return"
           /\ returned' = returned \cup {[path |-> Requested, value |-> r.value]}
           /\ IF side = "fg"
              THEN /\ fg_value' = r.value
                   /\ side' = "bg"
                   /\ cur' = BgPath(pairIdx)
                   /\ depth' = 1
                   /\ UNCHANGED <<pc, bg_value>>
              ELSE /\ bg_value' = r.value
                   /\ pc' = "audit_pair"
                   /\ UNCHANGED <<side, cur, depth, fg_value>>
           /\ UNCHANGED <<followed, raised>>
        \/ /\ r.kind = "raise"
           /\ raised' = "RecursionError"
           /\ pc' = "crashed"
           /\ UNCHANGED <<side, cur, depth, fg_value, bg_value, followed, returned>>
    /\ UNCHANGED <<coreFile, semanticFile, sourceTree, tokens, pairIdx,
                   semantic_results, palette_results, report, exit_code,
                   otherVars>>

\* lines 300-318 for pair pairIdx, and the step to the next pair
AuditPair ==
    /\ pc = "audit_pair"
    /\ LET r == audit_pair(pairIdx, fg_value, bg_value, semantic_results) IN
        /\ semantic_results' = r.results
        /\ raised' = r.raised
        /\ IF r.raised # "none"
           THEN pc' = "crashed" /\ UNCHANGED <<pairIdx, side, cur, depth>>
           ELSE IF pairIdx < Len(pairs)
           THEN /\ pc' = "resolve"
                /\ pairIdx' = pairIdx + 1
                /\ side' = "fg"
                /\ cur' = FgPath(pairIdx + 1)
                /\ depth' = 1
           ELSE pc' = "palette" /\ UNCHANGED <<pairIdx, side, cur, depth>>
    /\ UNCHANGED <<coreFile, semanticFile, sourceTree, tokens, fg_value, bg_value,
                   palette_results, report, exit_code, followed, returned,
                   otherVars>>

\* line 474
AuditPalette ==
    /\ pc = "palette"
    /\ LET r == audit_palette_colors(tokens) IN
        /\ palette_results' = r.results
        /\ raised' = r.raised
        /\ pc' = IF r.raised = "none" THEN "report" ELSE "crashed"
    /\ UNCHANGED <<coreFile, semanticFile, sourceTree, tokens, pairIdx, side, cur,
                   depth, fg_value, bg_value, semantic_results, report,
                   exit_code, followed, returned, otherVars>>

\* lines 478-485
GenerateReport ==
    /\ pc = "report"
    /\ \E tree \in MainTrees :
        /\ sourceTree' = tree
        /\ report' = generate_report(semantic_results \o palette_results, tree)
    /\ pc' = "summary"
    /\ UNCHANGED <<coreFile, semanticFile, tokens, pairIdx, side, cur, depth,
                   fg_value, bg_value, semantic_results, palette_results,
                   exit_code, raised, followed, returned, otherVars>>

\* lines 488-504
Exit ==
    /\ pc = "summary"
    /\ exit_code' = exit_code_of(semantic_results \o palette_results)
    /\ pc' = "done"
    /\ UNCHANGED <<coreFile, semanticFile, sourceTree, tokens, pairIdx, side, cur,
                   depth, fg_value, bg_value, semantic_results, palette_results,
                   report, raised, followed, returned, otherVars>>

Next ==
    \/ LoadCore \/ LoadSemantic \/ Resolve \/ AuditPair \/ AuditPalette
    \/ GenerateReport \/ Exit
Spec == Init /\ [][Next]_vars

(***************************************************************************)
(* SpecScan: find_color_usage_in_code, one file of the tree at a time.     *)
(***************************************************************************)
\* Files of the scanned tree.
MaxFiles == 2
DotLine == Line(<<".background(.red)">>, <<Match(<<".", "red">>, "background")>>)
VarLine == Line(<<".foregroundStyle(tint)">>, <<Match(<<"tint">>, "foreground")>>)
FileNames == <<"A.swift", "B.swift", "C.swift">>
FileLines ==
    {<<>>, <<FindingLine>>, <<FindingLine, DotLine>>, <<TokenLine, FindingLine>>,
     <<VarLine>>}
ScanTrees ==
    {NoTree} \cup
    UNION {{Tree(TRUE, [i \in 1..n |-> SourceFile(FileNames[i], ls[i], k[i])]) :
                ls \in [1..n -> FileLines], k \in [1..n -> {-1, 0, 1}]} :
           n \in 0..MaxFiles}

InitScan ==
    /\ pc = "call"
    /\ sourceTree \in ScanTrees
    /\ scanIdx = 0 /\ color_pairs = <<>> /\ warnings = <<>>
    /\ IdleMain /\ IdleParse /\ IdleLevel /\ IdleExtract

\* lines 203-217, 219
ScanStart ==
    /\ pc = "call"
    /\ pc' = IF sourceTree.exists THEN "loop" ELSE "returned"
    /\ UNCHANGED <<sourceTree, mainVars, scanVars, parseVars, levelVars,
                   extractVars>>

\* lines 220-251, for the next file
ScanFile ==
    /\ pc = "loop"
    /\ scanIdx < Len(sourceTree.files)
    /\ LET st == process_file(sourceTree.files[scanIdx + 1],
                    [color_pairs |-> color_pairs, warnings |-> warnings]) IN
        /\ color_pairs' = st.color_pairs
        /\ warnings' = st.warnings
    /\ scanIdx' = scanIdx + 1
    /\ UNCHANGED <<pc, sourceTree, mainVars, parseVars, levelVars, extractVars>>

\* line 253
ScanReturn ==
    /\ pc = "loop"
    /\ scanIdx = Len(sourceTree.files)
    /\ pc' = "returned"
    /\ UNCHANGED <<sourceTree, mainVars, scanVars, parseVars, levelVars,
                   extractVars>>

NextScan == ScanStart \/ ScanFile \/ ScanReturn
SpecScan == InitScan /\ [][NextScan]_vars

(***************************************************************************)
(* The reference chain of a path, read off the token mapping.              *)
(***************************************************************************)
HasNext(p) == p \in DOMAIN tokens /\ IsReference(tokens[p])
NextPath(p) == ref_target(RefPath(tokens[p]), tokens)

\* the paths of the chain from p, at most n links of it
RECURSIVE ChainFrom(_, _)
ChainFrom(p, n) ==
    IF n > 0 /\ HasNext(p) THEN <<p>> \o ChainFrom(NextPath(p), n - 1) ELSE <<p>>

\* a chain of more links than the mapping has keys visits a key twice
ChainOf(p) == ChainFrom(p, Cardinality(DOMAIN tokens) + 1)
Cyclic(p) ==
    LET c == ChainOf(p) IN \E i, j \in 1..Len(c) : i < j /\ c[i] = c[j]
\* what stands at the end of a chain without a cycle
ChainValue(p) ==
    LET c == ChainOf(p)
        last == c[Len(c)]
    IN  IF last \in DOMAIN tokens THEN tokens[last] ELSE None

AllResults == semantic_results \o palette_results
AnyFail(rs) == \E i \in 1..Len(rs) : rs[i].level = "FAIL"

(***************************************************************************)
(* The claims.                                                             *)
(***************************************************************************)
\* C1: when main() runs to its end, the exit code is 1 exactly when some
\* audited result (semantic pairs plus palette) has level FAIL and 0 otherwise,
\* and the report says "No failures found!" exactly when none has; with no
\* token file and no source file there is no result, the exit code is 0 and
\* the report says so.  The hardcoded-colour findings play no part.
C1_ExitCodeIffFail ==
    pc = "done" =>
        /\ exit_code = (IF AnyFail(AllResults) THEN 1 ELSE 0)
        /\ report.no_failures_found = ~AnyFail(AllResults)
        /\ (/\ coreFile.state = "missing" /\ semanticFile.state = "missing"
            /\ sourceTree.files = <<>>)
              => /\ AllResults = <<>> /\ report.total = 0
                 /\ exit_code = 0 /\ report.no_failures_found
C1_Witness ==
    /\ pc = "done" /\ exit_code = 0
    /\ AllResults # <<>>
    /\ report.hardcoded # <<>>

\* C2: for a requested path whose reference chain has no cycle,
\* resolve_token returns what stands at the end of the chain: the literal, or
\* None when a link names a path that is no key; the recursion limit is not
\* hit; and a pair with an unresolved side adds no result and raises nothing.
C2_Returns ==
    /\ \A e \in returned : ~Cyclic(e.path) => e.value = ChainValue(e.path)
    /\ (pc = "crashed" /\ raised = "RecursionError") => Cyclic(Requested)
    /\ \A i \in 1..Len(semantic_results) :
        /\ ChainValue(semantic_results[i].foreground) # None
        /\ ChainValue(semantic_results[i].background) # None
C2_Dropped ==
    (pc = "audit_pair" /\ (fg_value = None \/ bg_value = None))
        => (raised' = "none" /\ semantic_results' = semantic_results
              /\ pc' \in {"resolve", "palette"})
C2_AcyclicChainResolves == []C2_Returns /\ [][C2_Dropped]_vars
C2_Witness ==
    \E e \in returned :
        /\ e.path = FgPrimary
        /\ Len(ChainOf(e.path)) >= 3 /\ ~Cyclic(e.path)
        /\ e.value = Str(Gray9)

\* C3: parse_color_value never raises; it returns an RGB triple exactly for
\* 3/6/8-digit hex with or without '#' and for rgb(...)/rgba(...), and None
\* for every other string.
DocumentedSyntax(val) ==
    LET v == Lower(Strip(val))
        body == IF StartsWith(v, <<"#">>) THEN Tail(v) ELSE v
    IN  \/ Len(body) \in {3, 6, 8} /\ \A i \in 1..Len(body) : IsHexDigit(body[i])
        \/ RgbMatch(v).tag = "rgb"
C3_ParseNeverRaises ==
    /\ pc # "raised"
    /\ pc = "returned" => (parsed.tag = "rgb" <=> DocumentedSyntax(value))

\* C4: a token file that is missing or cannot be read is not fatal: the load
\* raises nothing and the run goes on to the audits.
C4_LoadNeverFatal ==
    \A f \in {coreFile, semanticFile} :
        f.state \in {"missing", "unreadable", "malformed"}
            => raised \notin {"OSError", "JSONDecodeError"}

\* C5: the scan returns exactly the findings of the files that were
\* processed without an error, one warning for each file that raised.
CleanFiles(files) == SelectSeq(files, LAMBDA f : ~Raises(f))
C5_FailedFileSkipped ==
    pc = "returned" /\ sourceTree.exists =>
        /\ color_pairs =
             scan_files(CleanFiles(sourceTree.files), 1,
                        [color_pairs |-> <<>>, warnings |-> <<>>]).color_pairs
        /\ Len(warnings) = Len(sourceTree.files) - Len(CleanFiles(sourceTree.files))

\* C6: get_contrast_level is non-decreasing in the ratio under FAIL <
\* AA_LARGE < AA_NORMAL < AAA_LARGE < AAA_NORMAL; ratio >= 7.0 gives
\* AAA_NORMAL, 4.5 <= ratio < 7.0 AAA_LARGE, 3.0 <= ratio < 4.5 AA_LARGE and
\* ratio < 3.0 FAIL (ratios in tenths).
Rank(lv) == CHOOSE i \in 1..Len(ContrastLevel) : ContrastLevel[i] = lv
C6_LevelMonotone ==
    \A i \in 1..Len(results) :
        LET r == results[i].ratio
            lv == results[i].level
        IN  /\ lv = (IF r >= 70 THEN "AAA_NORMAL"
                     ELSE IF r >= 45 THEN "AAA_LARGE"
                     ELSE IF r >= 30 THEN "AA_LARGE"
                     ELSE "FAIL")
            /\ \A r1 \in Ratios : r1 < r => Rank(get_contrast_level(r1)) <= Rank(lv)
C6_Witness ==
    \E i \in 1..Len(results) :
        results[i].ratio = 45 /\ results[i].level = "AAA_LARGE"

\* C7: every colour leaf of the document, at any nesting depth, is in the
\* flattened mapping under the key of its nesting, with its value, and the
\* mapping has no other key.
HasPathVariants(obj) ==
    /\ HasDesignExt(obj)
    /\ HasKey(Get(Get(obj, <<"$extensions">>), <<"design">>), <<"paths">>)
    /\ LET ps == Get(Get(Get(obj, <<"$extensions">>), <<"design">>), <<"paths">>)
       IN  HasKey(ps, <<"light">>) \/ HasKey(ps, <<"dark">>)
RECURSIVE LeafEntries(_, _, _)
LeafEntries(obj, path, pfx) ==
    IF obj.kind = "dict"
    THEN IF IsColorNode(obj)
         THEN {<<PrefixPath(pfx, path), Get(obj, <<"$value">>)>>}
         ELSE IF HasPathVariants(obj)
         THEN LET ps == Get(Get(Get(obj, <<"$extensions">>), <<"design">>), <<"paths">>)
              IN  {<<PrefixPath(pfx, path) \o <<".", m>>, Get(ps, <<m>>)>> :
                      m \in {n \in {"light", "dark"} : HasKey(ps, <<n>>)}}
         ELSE UNION {LeafEntries(obj.items[i].value,
                                 Dotted(path, obj.items[i].key), pfx) :
                        i \in {j \in 1..Len(obj.items) :
                                  obj.items[j].key \notin MetadataKeys}}
    ELSE IF obj.kind = "list"
    THEN UNION {LeafEntries(obj.items[i], path \o <<"[", HexChars[i], "]">>, pfx) :
                   i \in 1..Len(obj.items)}
    ELSE {}
C7_EveryLeafOnce ==
    pc = "returned" =>
        LET want == LeafEntries(data, <<>>, prefix)
        IN  /\ DOMAIN colors = {e[1] : e \in want}
            /\ \A e \in want : colors[e[1]] = e[2]

\* C8 as stated: a reference {p} is continued from the first of p,
\* semantic.p, core.p that is a key of the mapping.
FirstPresent(cands) ==
    cands[CHOOSE i \in 1..Len(cands) :
             /\ cands[i] \in DOMAIN tokens
             /\ \A j \in 1..(i - 1) : cands[j] \notin DOMAIN tokens]
AnyPresent(cands) == \E i \in 1..Len(cands) : cands[i] \in DOMAIN tokens
C8_LiteralPathFirst ==
    followed.from # <<>> =>
        LET p == followed.ref
            cands == <<p, <<"semantic", ".">> \o p, <<"core", ".">> \o p>>
        IN  AnyPresent(cands) => followed.to = FirstPresent(cands)
\* C8 as amended: a reference {p} whose path does not start with
\* "semantic." or "core." is continued from the first of semantic.p, core.p,
\* p that is a key of the mapping (from p when none is); a reference whose
\* path starts with one of the two prefixes is continued from p alone.
C8_PrefixedPathsFirst ==
    followed.from # <<>> =>
        LET p == followed.ref
            cands == << <<"semantic", ".">> \o p, <<"core", ".">> \o p, p>>
        IN  /\ followed.from \in DOMAIN tokens
            /\ tokens[followed.from] = Str(<<"{">> \o p \o <<"}">>)
            /\ followed.to =
                 IF /\ ~StartsWith(p, <<"semantic", ".">>)
                    /\ ~StartsWith(p, <<"core", ".">>)
                    /\ AnyPresent(cands)
                 THEN FirstPresent(cands) ELSE p
C8_Witness ==
    /\ followed.ref = <<"core">>
    /\ <<"core">> \in DOMAIN tokens
    /\ <<"semantic", ".", "core">> \in DOMAIN tokens
    /\ followed.to = <<"semantic", ".", "core">>
    /\ \E e \in returned : e.path = FgPrimary /\ e.value = tokens[<<"semantic", ".", "core">>]

\* C9: resolve_token never returns for a requested path whose reference
\* chain has a cycle, so such a run reaches neither the palette audit, nor
\* the report, nor an exit code.
C9_CycleNeverReturns ==
    /\ \A e \in returned : ~Cyclic(e.path)
    /\ pc \in {"audit_pair", "palette", "report", "summary", "done"}
          => \A i \in 1..pairIdx : ~Cyclic(FgPath(i)) /\ ~Cyclic(BgPath(i))
    /\ (pc = "resolve" /\ Cyclic(Requested))
          => resolve_token(cur, depth, tokens).kind # "return"
C9_Witness ==
    /\ pc = "crashed" /\ raised = "RecursionError"
    /\ depth > RecursionLimit
    /\ Requested = FgPrimary
    /\ tokens[FgPrimary] = Str(Ref(<<"color", ".", "foreground", ".", "primary">>))

\* C10: get_contrast_level never gives AA_NORMAL, so no result has that
\* level and the report counts none.
C10_AaNormalUnreachable ==
    /\ level # "AA_NORMAL"
    /\ \A i \in 1..Len(results) : results[i].level # "AA_NORMAL"
    /\ pc = "reported" => level_counts["AA_NORMAL"] = 0
C10_Witness ==
    /\ pc = "reported"
    /\ \E i \in 1..Len(results) : results[i].ratio >= 45 /\ results[i].ratio < 70
    /\ level_counts["AAA_LARGE"] = 1

====
